---- MODULE Spec2Model ----
(***************************************************************************)
(* The postgres hash adapter of NodeBB (src/database/postgres/hash.js):    *)
(* Redis-style hashes kept as JSONB documents of table "legacy_hash",      *)
(* joined through the type registry ("legacy_object_live").                *)
(*                                                                         *)
(* Spec      every handler as one atomic step (a call that runs alone)     *)
(* SpecConc  the write handlers cut at their statements, interleaved under *)
(*           the store's read-committed transactions and row locks         *)
(* SpecMix   two callers of different write handlers, and a reader         *)
(* SpecBuild exports.build of the build script (src/meta/build.js)         *)
(***************************************************************************)
EXTENDS Integers, Sequences, FiniteSets, TLC

VARIABLES legacy_object, legacy_hash, call, ret, nops, tx, building

vars == <<legacy_object, legacy_hash, call, ret, nops, tx, building>>

---------------------------------------------------------------------------
(* Bounds *)

\* the number of write calls of one run of Spec
MaxOps == 2
\* the largest number an increment may produce
MaxVal == 2
\* the longest key list or field list handed to a batch operation
MaxLen == 2
\* the number of concurrent callers of SpecConc
MaxProcs == 3

---------------------------------------------------------------------------
(* Values: JSON scalars as records, so that any two compare *)

Absent == [t |-> "absent", n |-> 0]
Null == [t |-> "null", n |-> 0]
Str == [t |-> "str", n |-> 0]
Num(i) == [t |-> "num", n |-> i]
\* undefined of JavaScript: no JSON value
Undefined == [t |-> "undefined", n |-> 0]
\* NULL of SQL
SqlNull == [t |-> "sqlnull", n |-> 0]
\* the text "data"->>field gives for a number
NumText(i) == [t |-> "numtext", n |-> i]

\* "" is the empty (falsy) key; k1 and k2 are ordinary keys
Keys == {"", "k1", "k2"}
\* "" is the empty field name; c is a field only an earlier writer has set
Fields == {"", "a", "b", "c"}

EmptyDoc == [f \in Fields |-> Absent]


NoRow == [row |-> FALSE, data |-> EmptyDoc]
Row(d) == [row |-> TRUE, data |-> d]

FieldsOf(d) == {f \in Fields : d[f] # Absent}

\* the elements of a sequence
Range(s) == {s[i] : i \in 1..Len(s)}

SeqsUpTo(S, n) == UNION {[1..m -> S] : m \in 0..n}

\* !x of JavaScript for a string
Falsy(s) == s = ""

---------------------------------------------------------------------------
(* The store: st.obj is "legacy_object_live" (key -> type), st.hash is      *)
(* "legacy_hash" (key -> row).  A statement gives [hash, err], a query that*)
(* returns rows gives [hash, err, rows].                                   *)

Store(o, h) == [obj |-> o, hash |-> h]

\* JSON.stringify(data) then ::TEXT::JSONB, for a field mapping: numbers, strings
\* and null keep their JSON value, a field holding undefined is left out
JSONStringifyObject(data) ==
    [f \in Fields |-> IF data[f] = Undefined THEN Absent ELSE data[f]]

\* JSON.stringify(value) then ::TEXT::JSONB, for one value: undefined gives no
\* text, which the driver sends as SQL NULL
JSONStringifyValue(value) == IF value = Undefined THEN SqlNull ELSE value

\* helpers.ensureLegacyObjectType(client, key, type): registers the key under
\* type when it has no live registration, and throws when the live type differs
ensureLegacyObjectType(st, key, type) ==
    LET o == [st.obj EXCEPT ![key] = IF @ = "none" THEN type ELSE @]
    IN  [st |-> [st EXCEPT !.obj = o], err |-> o[key] # type]

\* helpers.ensureLegacyObjectsType(client, keys, type): the same for every key
ensureLegacyObjectsType(st, keys, type) ==
    LET o == [k \in Keys |-> IF k \in Range(keys) /\ st.obj[k] = "none"
                             THEN type ELSE st.obj[k]]
    IN  [st |-> [st EXCEPT !.obj = o], err |-> \E k \in Range(keys) : o[k] # type]

\* module.transaction(perform): BEGIN, perform, COMMIT; when perform throws,
\* ROLLBACK (nothing it wrote is kept) and the error is thrown again
transaction(st, r) == IF r.err THEN [r EXCEPT !.st = st] ELSE r

\* an upsert that replaces the document by the new fields
JsonbReplace(data, new) == new

\* "data" || new: the fields of new replace the same-named fields of data
JsonbConcat(data, new) ==
    [f \in Fields |-> IF new[f] # Absent THEN new[f] ELSE data[f]]

\* a jsonb_set that builds a new object of the one field
JsonbSetAlone(data, field, value) == [f \in Fields |-> IF f = field THEN value ELSE Absent]

\* jsonb_set(data, ARRAY[field], value), for a value that is not SQL NULL
JsonbSet(data, field, value) == [data EXCEPT ![field] = value]

\* jsonb_build_object(field, value): an SQL NULL value becomes the JSON null
JsonbBuildObject(field, value) ==
    [EmptyDoc EXCEPT ![field] = IF value = SqlNull THEN Null ELSE value]

\* an insert that leaves an existing row alone (ON CONFLICT DO NOTHING)
setObjectQueryDoNothing(hash, key, json) ==
    [hash |-> [hash EXCEPT ![key] = IF @.row THEN @ ELSE Row(json)], err |-> FALSE]

\* query 'setObject': INSERT ... ON CONFLICT DO UPDATE SET data = data || $2
setObjectQuery(hash, key, json) ==
    [hash |-> [hash EXCEPT ![key] = IF @.row THEN Row(JsonbConcat(@.data, json))
                                    ELSE Row(json)],
     err |-> FALSE]

\* query 'setObjectField': INSERT jsonb_build_object ... DO UPDATE jsonb_set.
\* jsonb_set is strict: with an SQL NULL value it gives NULL, which the NOT NULL
\* column "data" refuses, and the statement fails
setObjectFieldQuery(hash, key, field, json) ==
    IF hash[key].row /\ json = SqlNull THEN [hash |-> hash, err |-> TRUE]
    ELSE [hash |-> [hash EXCEPT ![key] = IF @.row THEN Row(JsonbSet(@.data, field, json))
                                         ELSE Row(JsonbBuildObject(field, json))],
          err |-> FALSE]

\* ("data"->>field)::NUMERIC fails on a text that is no number
NumericCastFails(data, field) == data[field].t = "str"

\* COALESCE(("data"->>field)::NUMERIC, 0): an absent field and a JSON null are 0
CoalesceNumeric(data, field) == IF data[field].t = "num" THEN data[field].n ELSE 0

\* an update that writes the increment itself, not the sum with the row's value
IncrUpdateOverwrites(data, field, value) == JsonbSet(data, field, Num(value))

\* the DO UPDATE branch of the increment: the new value comes from the row itself
IncrUpdate(data, field, value) ==
    JsonbSet(data, field, Num(CoalesceNumeric(data, field) + value))

\* the document one increment upsert leaves for a key
IncrUpsert(row, field, value) ==
    IF row.row THEN Row(IncrUpdate(row.data, field, value))
    ELSE Row(JsonbBuildObject(field, Num(value)))

\* query 'incrObjectFieldBy': one upsert, RETURNING ("data"->>field)::NUMERIC
incrObjectFieldByQuery(hash, key, field, value) ==
    IF hash[key].row /\ NumericCastFails(hash[key].data, field)
    THEN [hash |-> hash, err |-> TRUE, rows |-> <<>>]
    ELSE LET new == IncrUpsert(hash[key], field, value)
         IN  [hash |-> [hash EXCEPT ![key] = new], err |-> FALSE,
              rows |-> <<NumText(new.data[field].n)>>]

\* query 'incrObjectFieldByMulti': the same upsert for every element of
\* UNNEST(keys), in the order of the array; RETURNING gives one row for each row
\* written, in that order.  A key proposed a second time makes the statement fail
\* (ON CONFLICT DO UPDATE cannot affect a row a second time).
RECURSIVE incrMulti(_, _, _, _, _, _)
incrMulti(acc, seen, keys, i, field, value) ==
    IF acc.err \/ i > Len(keys) THEN acc
    ELSE IF keys[i] \in seen THEN [acc EXCEPT !.err = TRUE, !.rows = <<>>]
    ELSE LET one == incrObjectFieldByQuery(acc.hash, keys[i], field, value)
         IN  incrMulti([hash |-> one.hash, err |-> one.err,
                        rows |-> IF one.err THEN <<>> ELSE acc.rows \o one.rows],
                       seen \cup {keys[i]}, keys, i + 1, field, value)

incrObjectFieldByMultiQuery(hash, keys, field, value) ==
    LET r == incrMulti([hash |-> hash, err |-> FALSE, rows |-> <<>>], {}, keys, 1,
                       field, value)
    IN  IF r.err THEN [hash |-> hash, err |-> TRUE, rows |-> <<>>] ELSE r

\* an aggregate that finds no field to keep: the COALESCE gives '{}'
DeleteAggEmpties(data, fields) == EmptyDoc

\* a filter that keeps the named fields ("key" = ANY) instead of the others
DeleteAggKeepsNamed(data, fields) ==
    [f \in Fields |-> IF f \in Range(fields) THEN data[f] ELSE Absent]

\* jsonb_object_agg over the fields of data whose name is in none of fields;
\* COALESCE(..., '{}') keeps an empty object when none is left
DeleteAgg(data, fields) ==
    [f \in Fields |-> IF f \in Range(fields) THEN Absent ELSE data[f]]

\* a delete that drops the row once no field is left
deleteObjectFieldsDropsEmpty(hash, key, fields) ==
    [hash EXCEPT ![key] = IF @.row /\ FieldsOf(DeleteAgg(@.data, fields)) # {}
                          THEN Row(DeleteAgg(@.data, fields)) ELSE NoRow]

\* an upsert in place of the UPDATE: a key with no row gets the empty document
deleteObjectFieldsUpserts(hash, key, fields) ==
    [hash EXCEPT ![key] = IF @.row THEN Row(DeleteAgg(@.data, fields)) ELSE Row(EmptyDoc)]

\* query 'deleteObjectFields': UPDATE "legacy_hash" ... WHERE "_key" = key
deleteObjectFieldsQuery(hash, key, fields) ==
    [hash EXCEPT ![key] = IF @.row THEN Row(DeleteAgg(@.data, fields)) ELSE @]

---------------------------------------------------------------------------
(* What a call gives back *)

Ret(kind) == [kind |-> kind, doc |-> EmptyDoc, docs |-> <<>>, val |-> Absent,
              nums |-> <<>>, bools |-> <<>>, names |-> <<>>]
RetUndefined == Ret("undefined")
RetNull == Ret("null")
\* the call threw (the promise is rejected)
RetError == Ret("error")
RetDoc(d) == [Ret("doc") EXCEPT !.doc = d]
RetDocs(ds) == [Ret("docs") EXCEPT !.docs = ds]
RetVal(v) == [Ret("val") EXCEPT !.val = v]
RetNum(n) == [Ret("num") EXCEPT !.nums = <<n>>]
RetNums(ns) == [Ret("nums") EXCEPT !.nums = ns]
RetBool(b) == [Ret("bool") EXCEPT !.bools = <<b>>]
RetBools(bs) == [Ret("bools") EXCEPT !.bools = bs]
RetNames(ns) == [Ret("names") EXCEPT !.names = ns]

\* a row of a batch read: row.data, null when the LEFT JOIN found nothing
NullData == [null |-> TRUE, doc |-> EmptyDoc]
Data(d) == [null |-> FALSE, doc |-> d]

---------------------------------------------------------------------------
(* The write handlers *)

\* delete data['']
StripEmpty(data) == [data EXCEPT ![""] = Absent]

\* the function setObject hands to module.transaction
setObjectPerform(st, key, data) ==
    LET e == ensureLegacyObjectType(st, key, "hash")
        q == setObjectQuery(e.st.hash, key, JSONStringifyObject(data))
    IN  IF e.err THEN e
        ELSE [st |-> [e.st EXCEPT !.hash = q.hash], err |-> q.err]

\* module.setObject(key, data); data is [given, obj], not given for undefined
setObjectCall(st, key, data) ==
    IF Falsy(key) \/ ~data.given THEN [st |-> st, ret |-> RetUndefined]
    ELSE LET r == transaction(st, setObjectPerform(st, key, StripEmpty(data.obj)))
         IN  [st |-> r.st, ret |-> IF r.err THEN RetError ELSE RetUndefined]

\* the function setObjectField hands to module.transaction
setObjectFieldPerform(st, key, field, value) ==
    LET e == ensureLegacyObjectType(st, key, "hash")
        q == setObjectFieldQuery(e.st.hash, key, field, JSONStringifyValue(value))
    IN  IF e.err THEN e
        ELSE [st |-> [e.st EXCEPT !.hash = q.hash], err |-> q.err]

\* module.setObjectField(key, field, value)
setObjectFieldCall(st, key, field, value) ==
    IF Falsy(field) THEN [st |-> st, ret |-> RetUndefined]
    ELSE LET r == transaction(st, setObjectFieldPerform(st, key, field, value))
         IN  [st |-> r.st, ret |-> IF r.err THEN RetError ELSE RetUndefined]

\* parseInt(value, 10): NaN for what is no number
parseInt(value) ==
    IF value.t = "num" THEN [nan |-> FALSE, n |-> value.n] ELSE [nan |-> TRUE, n |-> 0]

\* parseFloat(r.v) of a NUMERIC the driver hands over as text
parseFloat(v) == v.n

\* the function incrObjectFieldBy hands to module.transaction; key is
\* [isArray, key, keys]
incrObjectFieldByPerform(st, key, field, value) ==
    LET e == IF key.isArray THEN ensureLegacyObjectsType(st, key.keys, "hash")
             ELSE ensureLegacyObjectType(st, key.key, "hash")
        q == IF key.isArray
             THEN incrObjectFieldByMultiQuery(e.st.hash, key.keys, field, value)
             ELSE incrObjectFieldByQuery(e.st.hash, key.key, field, value)
    IN  IF e.err THEN [st |-> e.st, err |-> TRUE, rows |-> <<>>]
        ELSE [st |-> [e.st EXCEPT !.hash = q.hash], err |-> q.err, rows |-> q.rows]

\* the statements of incrObjectFieldBy run with no transaction around them
incrObjectFieldByNoTransaction(st, key, field, value) ==
    incrObjectFieldByPerform(st, key, field, value)

\* the transaction of incrObjectFieldBy
incrObjectFieldByTransaction(st, key, field, value) ==
    transaction(st, incrObjectFieldByPerform(st, key, field, value))

\* module.incrObjectFieldBy(key, field, value)
incrObjectFieldByCall(st, key, field, value) ==
    LET v == parseInt(value) IN
    IF (~key.isArray /\ Falsy(key.key)) \/ v.nan THEN [st |-> st, ret |-> RetNull]
    ELSE LET r == incrObjectFieldByTransaction(st, key, field, v.n)
         IN  [st |-> r.st,
              ret |-> IF r.err THEN RetError
                      ELSE IF key.isArray
                           THEN RetNums([i \in 1..Len(r.rows) |-> parseFloat(r.rows[i])])
                           ELSE RetNum(parseFloat(r.rows[1]))]

\* module.deleteObjectFields(key, fields): one UPDATE, in no transaction
deleteObjectFieldsCall(st, key, fields) ==
    IF Falsy(key) \/ Len(fields) = 0 THEN [st |-> st, ret |-> RetUndefined]
    ELSE [st |-> [st EXCEPT !.hash = deleteObjectFieldsQuery(@, key, fields)],
          ret |-> RetUndefined]

\* module.deleteObjectField(key, field)
deleteObjectFieldCall(st, key, field) == deleteObjectFieldsCall(st, key, <<field>>)

---------------------------------------------------------------------------
(* The read handlers *)

\* a read of "legacy_hash" alone, with no join to the registry
HashRowOnly(st, key) == st.hash[key].row

\* "legacy_object_live" o INNER JOIN "legacy_hash" h ON the key and the type:
\* the type of a row of "legacy_hash" is always 'hash'
LiveHash(st, key) == st.obj[key] = "hash" /\ st.hash[key].row

\* module.getObject(key)
getObjectCall(st, key) ==
    IF Falsy(key) THEN RetNull
    ELSE IF LiveHash(st, key) THEN RetDoc(st.hash[key].data) ELSE RetNull

\* UNNEST(keys) WITH ORDINALITY k("_key", i)
Unnest(keys) == {[key |-> keys[i], i |-> i] : i \in 1..Len(keys)}

\* the rows in the opposite order (ORDER BY k.i DESC)
OrderByIDesc(rows) ==
    [j \in 1..Cardinality(rows) |-> CHOOSE r \in rows : r.i = Cardinality(rows) + 1 - j]

\* ORDER BY k.i ASC of rows that hold each i of 1..n once
OrderByI(rows) == [j \in 1..Cardinality(rows) |-> CHOOSE r \in rows : r.i = j]

\* query 'getObjects': one row for each element of keys (the joins are LEFT OUTER
\* and find at most one row), ordered by the position
getObjectsQuery(st, keys) ==
    OrderByI({[i |-> k.i,
               data |-> IF LiveHash(st, k.key) THEN Data(st.hash[k.key].data)
                        ELSE NullData] : k \in Unnest(keys)})

\* module.getObjects(keys)
getObjectsCall(st, keys) ==
    IF Len(keys) = 0 THEN RetDocs(<<>>)
    ELSE LET rows == getObjectsQuery(st, keys)
         IN  RetDocs([j \in 1..Len(rows) |-> rows[j].data])

\* "data"->>field: the text of the value, NULL for a JSON null or no such field
ArrowText(data, field) ==
    IF data[field].t = "num" THEN NumText(data[field].n)
    ELSE IF data[field].t = "str" THEN Str ELSE Null

\* module.getObjectField(key, field)
getObjectFieldCall(st, key, field) ==
    IF Falsy(key) THEN RetNull
    ELSE IF LiveHash(st, key) THEN RetVal(ArrowText(st.hash[key].data, field))
    ELSE RetNull

\* jsonb_object_agg(f, d."value") over UNNEST(fields) f LEFT OUTER JOIN
\* jsonb_each(data) d: every requested field, with JSON null where the document has
\* none; an aggregate over no row (no field requested) is NULL
JsonbObjectAgg(fields, data) ==
    IF Len(fields) = 0 THEN NullData
    ELSE Data([f \in Fields |-> IF f \notin Range(fields) THEN Absent
                                ELSE IF data[f] = Absent THEN Null ELSE data[f]])

\* a getObjectFields that gives null for a key with no hash, as getObject does
getObjectFieldsNullForMissing(st, key, fields) ==
    IF Falsy(key) \/ ~LiveHash(st, key) THEN RetNull
    ELSE LET d == JsonbObjectAgg(fields, st.hash[key].data)
         IN  IF d.null THEN RetNull ELSE RetDoc(d.doc)

\* module.getObjectFields(key, fields)
getObjectFieldsCall(st, key, fields) ==
    IF Falsy(key) THEN RetNull
    ELSE IF LiveHash(st, key)
         THEN LET d == JsonbObjectAgg(fields, st.hash[key].data)
              IN  IF d.null THEN RetNull ELSE RetDoc(d.doc)
         ELSE RetDoc([f \in Fields |-> IF f \in Range(fields) THEN Null ELSE Absent])

\* query 'getObjectsFields': for each element of keys, in the order of the array,
\* the aggregate over the requested fields; jsonb_each of the NULL data of a key
\* the LEFT OUTER JOINs found no hash for gives no field
getObjectsFieldsQuery(st, keys, fields) ==
    OrderByI({[i |-> k.i,
               data |-> JsonbObjectAgg(fields, IF LiveHash(st, k.key)
                                               THEN st.hash[k.key].data ELSE EmptyDoc)] :
              k \in Unnest(keys)})

\* module.getObjectsFields(keys, fields)
getObjectsFieldsCall(st, keys, fields) ==
    IF Len(keys) = 0 THEN RetDocs(<<>>)
    ELSE LET rows == getObjectsFieldsQuery(st, keys, fields)
         IN  RetDocs([j \in 1..Len(rows) |-> rows[j].data])

\* the order in which a JSONB object gives its keys: shorter first, then by bytes
FieldOrder == <<"", "a", "b", "c">>

\* ARRAY(SELECT jsonb_object_keys(data))
JsonbObjectKeys(data) == SelectSeq(FieldOrder, LAMBDA f : data[f] # Absent)

\* module.getObjectKeys(key)
getObjectKeysCall(st, key) ==
    IF Falsy(key) THEN RetUndefined
    ELSE IF LiveHash(st, key) THEN RetNames(JsonbObjectKeys(st.hash[key].data))
    ELSE RetNames(<<>>)

\* the test without its second half: "data" ? field alone
HasField(data, field) == data[field] # Absent

\* "data" ? field AND "data"->>field IS NOT NULL
HasNonNull(data, field) == data[field] # Absent /\ ArrowText(data, field) # Null

\* module.isObjectField(key, field)
isObjectFieldCall(st, key, field) ==
    IF Falsy(key) THEN RetUndefined
    ELSE IF LiveHash(st, key) THEN RetBool(HasNonNull(st.hash[key].data, field))
    ELSE RetBool(FALSE)

\* module.isObjectFields(key, fields), from what getObjectFields gives
isObjectFieldsCall(st, key, fields) ==
    IF Falsy(key) THEN RetUndefined
    ELSE LET data == getObjectFieldsCall(st, key, fields)
         IN  IF data.kind = "null"
             THEN RetBools([i \in 1..Len(fields) |-> FALSE])
             ELSE RetBools([i \in 1..Len(fields) |->
                              data.doc[fields[i]] # Absent /\ data.doc[fields[i]] # Null])

---------------------------------------------------------------------------
(* Spec: the calls, one at a time *)

NoData == [given |-> FALSE, obj |-> EmptyDoc]
Given(d) == [given |-> TRUE, obj |-> d]

OneKey(k) == [isArray |-> FALSE, key |-> k, keys |-> <<>>]
KeyArray(ks) == [isArray |-> TRUE, key |-> "", keys |-> ks]

\* the arguments the calls are tried with
KeyArgs == Keys
FieldArgs == {"", "a", "b"}
ValueArgs == {Undefined, Null, Str, Num(0)}
DeltaArgs == {Num(1), Str}
DataArgs ==
    {NoData, Given([EmptyDoc EXCEPT !["b"] = Num(2)]),
     Given([EmptyDoc EXCEPT !["a"] = Undefined])}
    \cup {Given(d) : d \in {e \in [Fields -> {Absent, Num(1)}] :
                                /\ e["b"] = Absent \/ e[""] = Absent
                                /\ e["c"] = Absent}}
\* the key lists of getObjects, and those of getObjectsFields and of the batch
\* increment
KeyLists == SeqsUpTo(Keys, MaxLen)
IncrKeyLists == SeqsUpTo({"k1", "k2"}, MaxLen)
\* the field lists deleteObjectFields is tried with
FieldLists == SeqsUpTo({"a", "b"}, MaxLen)
\* the key lists getObjectsFields is tried with, and the field lists the reads
\* of several fields are tried with
BatchKeyLists == {<<>>, <<"k1">>, <<"k2", "k1">>, <<"k1", "k1">>}
BatchFieldLists == {<<>>, <<"a">>, <<"a", "b">>, <<"b", "a">>}

Call(op) == [op |-> op, key |-> OneKey(""), field |-> "", fields |-> <<>>,
             data |-> NoData, value |-> Absent]

\* no number of the store is beyond the bound
Bounded(st) == \A k \in Keys, f \in Fields : st.hash[k].data[f].n <= MaxVal

Now == Store(legacy_object, legacy_hash)

\* the concurrent callers of SpecConc
Procs == 1..MaxProcs

\* a caller: pc is where its call stands, reg the keys its transaction has
\* registered and rows the rows it has written, neither committed yet
IdleTx == [pc |-> "idle", call |-> Call("idle"), reg |-> {},
           rows |-> [k \in Keys |-> [written |-> FALSE, row |-> NoRow]],
           ret |-> RetUndefined]

InitTx == [p \in Procs |-> IdleTx]

\* exports.build of the build script has not been called
IdleBuild ==
    [pc |-> "idle", targets |-> <<>>, series |-> FALSE, started |-> <<>>,
     running |-> {}, each |-> "idle", steps |-> <<>>, reported |-> {},
     err |-> "", callbacks |-> 0]

Init ==
    /\ legacy_object \in {o \in [Keys -> {"none", "zset"}] : o[""] = "none" /\ o["k1"] = "none"}
    /\ legacy_hash = [k \in Keys |-> NoRow]
    /\ call = Call("idle")
    /\ ret = RetUndefined
    /\ nops = 0
    /\ tx = InitTx
    /\ building = IdleBuild

\* a write call that gave r
Write(c, r) ==
    /\ call.op = "idle"
    /\ nops < MaxOps
    /\ Bounded(r.st)
    /\ legacy_object' = r.st.obj
    /\ legacy_hash' = r.st.hash
    /\ call' = c
    /\ ret' = r.ret
    /\ nops' = nops + 1
    /\ UNCHANGED <<tx, building>>

\* a read call that gave r
Read(c, r) ==
    /\ call.op = "idle"
    /\ call' = c
    /\ ret' = r
    /\ UNCHANGED <<legacy_object, legacy_hash, nops, tx, building>>

setObject ==
    \E key \in KeyArgs, data \in DataArgs :
        Write([Call("setObject") EXCEPT !.key = OneKey(key), !.data = data],
              setObjectCall(Now, key, data))

setObjectField ==
    \E key \in KeyArgs, field \in FieldArgs, value \in ValueArgs :
        Write([Call("setObjectField") EXCEPT !.key = OneKey(key), !.field = field,
                                             !.value = value],
              setObjectFieldCall(Now, key, field, value))

incrObjectFieldBy ==
    \E key \in {OneKey(k) : k \in KeyArgs} \cup {KeyArray(ks) : ks \in IncrKeyLists},
       field \in FieldArgs, value \in DeltaArgs :
        Write([Call("incrObjectFieldBy") EXCEPT !.key = key, !.field = field,
                                                !.value = value],
              incrObjectFieldByCall(Now, key, field, value))

deleteObjectFields ==
    \E key \in KeyArgs, fields \in FieldLists :
        Write([Call("deleteObjectFields") EXCEPT !.key = OneKey(key), !.fields = fields],
              deleteObjectFieldsCall(Now, key, fields))

getObject ==
    \E key \in KeyArgs :
        Read([Call("getObject") EXCEPT !.key = OneKey(key)], getObjectCall(Now, key))

getObjects ==
    \E keys \in KeyLists :
        Read([Call("getObjects") EXCEPT !.key = KeyArray(keys)], getObjectsCall(Now, keys))

getObjectField ==
    \E key \in KeyArgs, field \in FieldArgs :
        Read([Call("getObjectField") EXCEPT !.key = OneKey(key), !.field = field],
             getObjectFieldCall(Now, key, field))

getObjectFields ==
    \E key \in KeyArgs, fields \in BatchFieldLists :
        Read([Call("getObjectFields") EXCEPT !.key = OneKey(key), !.fields = fields],
             getObjectFieldsCall(Now, key, fields))

getObjectsFields ==
    \E keys \in BatchKeyLists, fields \in BatchFieldLists :
        Read([Call("getObjectsFields") EXCEPT !.key = KeyArray(keys), !.fields = fields],
             getObjectsFieldsCall(Now, keys, fields))

getObjectKeys ==
    \E key \in KeyArgs :
        Read([Call("getObjectKeys") EXCEPT !.key = OneKey(key)], getObjectKeysCall(Now, key))

isObjectField ==
    \E key \in KeyArgs, field \in FieldArgs :
        Read([Call("isObjectField") EXCEPT !.key = OneKey(key), !.field = field],
             isObjectFieldCall(Now, key, field))

isObjectFields ==
    \E key \in KeyArgs, fields \in BatchFieldLists :
        Read([Call("isObjectFields") EXCEPT !.key = OneKey(key), !.fields = fields],
             isObjectFieldsCall(Now, key, fields))

\* the caller has the result; no call is in progress
Return ==
    /\ call.op # "idle"
    /\ call' = Call("idle")
    /\ ret' = RetUndefined
    /\ UNCHANGED <<legacy_object, legacy_hash, nops, tx, building>>

Next ==
    \/ Return
    \/ setObject
    \/ setObjectField
    \/ incrObjectFieldBy
    \/ deleteObjectFields
    \/ getObject
    \/ getObjects
    \/ getObjectField
    \/ getObjectFields
    \/ getObjectsFields
    \/ getObjectKeys
    \/ isObjectField
    \/ isObjectFields

Spec == Init /\ [][Next]_vars

---------------------------------------------------------------------------
(* The claims checked under Spec *)

\* the store after the step
After == Store(legacy_object', legacy_hash')

\* a step that makes call op
Calls(op) == call.op = "idle" /\ call'.op = op

\* the keys a call names
CallKeys(c) == IF c.key.isArray THEN Range(c.key.keys) ELSE {c.key.key}

\* the arguments pass the checks the write handler makes before its transaction
ReachesTransaction(c) ==
    CASE c.op = "setObject" -> ~Falsy(c.key.key) /\ c.data.given
      [] c.op = "setObjectField" -> ~Falsy(c.field)
      [] c.op = "incrObjectFieldBy" ->
            (c.key.isArray \/ ~Falsy(c.key.key)) /\ c.value.t = "num"
      [] OTHER -> FALSE

\* C2: a setObject, setObjectField or incrObjectFieldBy (one key or an array) that
\* names a key registered under another type than "hash" leaves the registry and
\* every hash document as they were, and fails with the registry's error whenever
\* its arguments reach the transaction.
C2_TypeConflictNoPartialWrite ==
    [][(/\ call.op = "idle"
        /\ call'.op \in {"setObject", "setObjectField", "incrObjectFieldBy"}
        /\ \E k \in CallKeys(call') : legacy_object[k] \notin {"none", "hash"})
       => /\ legacy_object' = legacy_object
          /\ legacy_hash' = legacy_hash
          /\ ReachesTransaction(call') => ret'.kind = "error"]_vars

\* a batch increment failed on k2 and left k1, which it names first, unregistered
C2_Witness ==
    /\ call.op = "incrObjectFieldBy"
    /\ call.key = KeyArray(<<"k1", "k2">>)
    /\ ret.kind = "error"
    /\ legacy_object["k2"] = "zset"
    /\ legacy_object["k1"] = "none"
    /\ ~legacy_hash["k1"].row

C4_NoEmptyFieldName ==
    \A k \in Keys : legacy_hash[k].data[""] = Absent

\* C5: getObjects(keys) gives as many results as keys, the i-th being the
\* document of keys[i] when its live registration is "hash" and null otherwise,
\* which for a non-empty key is what getObject(keys[i]) gives: nothing is
\* reordered, nothing left out.
C5_GetObjectsOrder ==
    call.op = "getObjects" /\ Len(call.key.keys) > 0 =>
        /\ ret.kind = "docs"
        /\ Len(ret.docs) = Len(call.key.keys)
        /\ \A i \in 1..Len(call.key.keys) :
              LET k == call.key.keys[i]
                  one == getObjectCall(Store(legacy_object, legacy_hash), k)
              IN  /\ ret.docs[i] = IF legacy_object[k] = "hash"
                                   THEN Data(legacy_hash[k].data) ELSE NullData
                  /\ ~Falsy(k) =>
                        ret.docs[i] = IF one.kind = "null" THEN NullData ELSE Data(one.doc)

\* getObjects([k1, k2]) gave the document of k1, then null for the unwritten k2
C5_Witness ==
    /\ call.op = "getObjects"
    /\ call.key.keys = <<"k1", "k2">>
    /\ legacy_object["k1"] = "hash"
    /\ legacy_object["k2"] # "hash"
    /\ ret.docs = <<Data(legacy_hash["k1"].data), NullData>>
    /\ FieldsOf(legacy_hash["k1"].data) # {}

\* C6: a batch increment by a number, on keys none of which is registered under
\* another type and whose field holds no text, returns one number for each key,
\* the i-th being the new value of keys[i].
C6_BatchIncrementReturnsEach ==
    (/\ call.op = "incrObjectFieldBy"
     /\ call.key.isArray
     /\ call.value.t = "num"
     /\ \A k \in Range(call.key.keys) :
           legacy_object[k] # "zset" /\ legacy_hash[k].data[call.field].t # "str")
    => /\ ret.kind = "nums"
       /\ Len(ret.nums) = Len(call.key.keys)
       /\ \A i \in 1..Len(call.key.keys) :
             legacy_hash[call.key.keys[i]].data[call.field] = Num(ret.nums[i])

\* the fields a mapping gives a JSON value
Named(data) == {f \in Fields : data[f] \notin {Absent, Undefined}}

\* C7: after setObject(k, F) on a key that is free or a hash, the document of k has
\* the field names of the document before and those of F other than "", every
\* field of F holds F's value and every other field its value of before.
C7_MergeLaw ==
    [][(/\ Calls("setObject")
        /\ ReachesTransaction(call')
        /\ legacy_object[call'.key.key] \in {"none", "hash"})
       => LET k == call'.key.key
              F == call'.data.obj
              D == legacy_hash[k].data
          IN  /\ legacy_hash'[k].row
              /\ FieldsOf(legacy_hash'[k].data) = FieldsOf(D) \cup (Named(F) \ {""})
              /\ \A f \in Named(F) \ {""} : legacy_hash'[k].data[f] = F[f]
              /\ \A f \in Fields \ (Named(F) \ {""}) : legacy_hash'[k].data[f] = D[f]]_vars

\* setObject(k1, {b: 2}) on the document {a: 1} gave {a: 1, b: 2}
C7_Witness ==
    /\ call.op = "setObject"
    /\ call.key.key = "k1"
    /\ call.data = Given([EmptyDoc EXCEPT !["b"] = Num(2)])
    /\ legacy_hash["k1"] = Row([EmptyDoc EXCEPT !["a"] = Num(1), !["b"] = Num(2)])

\* C8: deleteObjectFields(k, fields) on a key with a hash document removes the
\* named fields and keeps every other field with its value; when none is left the
\* document is the empty object (getObject gives {}, getObjectKeys gives []); the
\* registry is as before.
C8_Deletion ==
    [][(/\ Calls("deleteObjectFields")
        /\ ~Falsy(call'.key.key)
        /\ Len(call'.fields) > 0
        /\ legacy_hash[call'.key.key].row)
       => LET k == call'.key.key
              D == legacy_hash[k].data
              E == legacy_hash'[k].data
          IN  /\ legacy_hash'[k].row
              /\ \A f \in Fields : E[f] = IF f \in Range(call'.fields) THEN Absent ELSE D[f]
              /\ \A j \in Keys \ {k} : legacy_hash'[j] = legacy_hash[j]
              /\ legacy_object' = legacy_object
              /\ FieldsOf(D) \subseteq Range(call'.fields) =>
                    /\ getObjectCall(After, k) = RetDoc(EmptyDoc)
                    /\ getObjectKeysCall(After, k) = RetNames(<<>>)
              /\ ret'.kind = "undefined"]_vars

\* deleteObjectFields(k1, [a]) took a from {a: 1, b: 1} and kept b
C8_Witness ==
    /\ call.op = "deleteObjectFields"
    /\ call.key.key = "k1"
    /\ call.fields = <<"a">>
    /\ legacy_hash["k1"] = Row([EmptyDoc EXCEPT !["b"] = Num(1)])

\* C9: for a non-empty key with no live "hash" registration, getObject gives null
\* and getObjectFields gives a mapping of exactly the requested fields, each null.
C9_MissingKeyAsymmetry ==
    /\ (call.op = "getObject" /\ ~Falsy(call.key.key)
        /\ legacy_object[call.key.key] # "hash") => ret.kind = "null"
    /\ (call.op = "getObjectFields" /\ ~Falsy(call.key.key)
        /\ legacy_object[call.key.key] # "hash")
       => /\ ret.kind = "doc"
          /\ \A f \in Fields :
                ret.doc[f] = IF f \in Range(call.fields) THEN Null ELSE Absent

\* getObjectFields(k1, [a, b]) on the unwritten k1 gave {a: null, b: null}
C9_Witness ==
    /\ call.op = "getObjectFields"
    /\ call.key.key = "k1"
    /\ call.fields = <<"a", "b">>
    /\ legacy_object["k1"] = "none"
    /\ ret = RetDoc([EmptyDoc EXCEPT !["a"] = Null, !["b"] = Null])

\* C10: after setObjectField(k, f, null), whatever the registration of the key k,
\* isObjectField(k, f) is false, isObjectFields(k, [f]) is [false] and
\* getObjectFields(k, [f]) is {f: null}; and isObjectField(k, f) is true exactly
\* when k has a live hash document that holds f with a value other than null.
C10_FieldPresence ==
    [][/\ (Calls("setObjectField") /\ call'.value = Null
           /\ ~Falsy(call'.key.key) /\ ~Falsy(call'.field))
          => LET k == call'.key.key
                 f == call'.field
             IN  /\ isObjectFieldCall(After, k, f) = RetBool(FALSE)
                 /\ isObjectFieldsCall(After, k, <<f>>) = RetBools(<<FALSE>>)
                 /\ getObjectFieldsCall(After, k, <<f>>)
                       = RetDoc([EmptyDoc EXCEPT ![f] = Null])
       /\ (Calls("isObjectField") /\ ~Falsy(call'.key.key))
          => LET k == call'.key.key
                 f == call'.field
             IN  /\ ret'.kind = "bool"
                 /\ ret'.bools[1] = (/\ legacy_object[k] = "hash"
                                     /\ legacy_hash[k].row
                                     /\ legacy_hash[k].data[f] \notin {Absent, Null})]_vars

\* setObjectField(k1, a, null) stored the JSON null under a
C10_Witness ==
    /\ call.op = "setObjectField"
    /\ call.key.key = "k1"
    /\ call.field = "a"
    /\ call.value = Null
    /\ ret.kind = "undefined"
    /\ legacy_object["k1"] = "hash"
    /\ legacy_hash["k1"].data["a"] = Null

\* the step leaves the registry and every hash document as they were
StoreUnchanged == legacy_object' = legacy_object /\ legacy_hash' = legacy_hash

\* C11: a setObject with an empty key, with no field mapping, or with a mapping
\* that names no field other than "" leaves the registry and every hash document
\* as they were.
C11_SetObjectEmptyInputNoOp ==
    [][(/\ Calls("setObject")
        /\ \/ Falsy(call'.key.key)
           \/ ~call'.data.given
           \/ Named(call'.data.obj) \ {""} = {})
       => StoreUnchanged]_vars

\* a write call whose arguments are invalid: an empty key, an empty field name,
\* or for the increment a delta that is no number
InvalidArgument(c) ==
    \/ ~c.key.isArray /\ Falsy(c.key.key)
    \/ c.op \in {"setObjectField", "incrObjectFieldBy"} /\ Falsy(c.field)
    \/ c.op = "incrObjectFieldBy" /\ parseInt(c.value).nan

\* C12: a setObject, setObjectField, incrObjectFieldBy or deleteObjectFields called
\* with an invalid argument raises no error, returns its default (undefined or
\* null) and leaves the registry and every hash document as they were.
C12_InvalidArgumentNoOp ==
    [][(/\ call.op = "idle"
        /\ call'.op \in {"setObject", "setObjectField", "incrObjectFieldBy",
                         "deleteObjectFields"}
        /\ InvalidArgument(call'))
       => /\ ret'.kind \in {"undefined", "null"}
          /\ StoreUnchanged]_vars

\* C14: setObjectField(k, f, v) with a non-empty f leaves every other field of k
\* and every other key's document as they were; on a key that has no document
\* and is not registered under another type it creates the document of the one
\* field f; when it raises no error f holds v; and the same call made again
\* leaves the store as the first call left it.
C14_SetObjectFieldOneField ==
    [][(Calls("setObjectField") /\ ~Falsy(call'.field))
       => LET k == call'.key.key
              f == call'.field
              v == IF call'.value = Undefined THEN Null ELSE call'.value
              again == setObjectFieldCall(After, k, f, call'.value)
          IN  /\ \A g \in Fields \ {f} : legacy_hash'[k].data[g] = legacy_hash[k].data[g]
              /\ \A j \in Keys \ {k} : legacy_hash'[j] = legacy_hash[j]
              /\ (~legacy_hash[k].row /\ legacy_object[k] \in {"none", "hash"})
                    => /\ legacy_hash'[k].row
                       /\ FieldsOf(legacy_hash'[k].data) = {f}
                       /\ legacy_hash'[k].data[f] = v
              /\ ret'.kind = "undefined" => legacy_hash'[k].data[f] = v
              /\ again.st = After]_vars

\* setObjectField(k1, b, 0) on the document {a: 1} gave {a: 1, b: 0}
C14_Witness ==
    /\ call.op = "setObjectField"
    /\ call.key.key = "k1"
    /\ call.field = "b"
    /\ call.value = Num(0)
    /\ legacy_hash["k1"] = Row([EmptyDoc EXCEPT !["a"] = Num(1), !["b"] = Num(0)])

\* C19: deleteObjectFields on a key that has no hash document (a key never
\* written, or one registered under another type) raises no error and leaves the
\* registry and every hash document as they were: no registration and no empty
\* document appears.
C19_DeleteCreatesNothing ==
    [][(Calls("deleteObjectFields") /\ ~legacy_hash[call'.key.key].row)
       => /\ ret'.kind = "undefined"
          /\ StoreUnchanged
          /\ ~legacy_hash'[call'.key.key].row]_vars

\* deleteObjectFields(k2, [a]) was called on k2, which is registered as a zset
C19_Witness ==
    /\ call.op = "deleteObjectFields"
    /\ call.key.key = "k2"
    /\ call.fields = <<"a">>
    /\ ret.kind = "undefined"
    /\ legacy_object["k2"] = "zset"
    /\ ~legacy_hash["k2"].row

\* C15: for a key whose live registration is not "hash", getObject and
\* getObjectField give null and the key's positions in getObjects are null; for
\* such a key that is not empty, getObjectKeys gives the empty sequence,
\* isObjectField false and getObjectFields the mapping of the requested fields to
\* null.  A read that gives field data gives it for a key registered as "hash",
\* and were the registrations taken away or changed behind the adapter (the
\* registry is another component's), the same read of the rows would find nothing.
C15_ReadsThroughRegistry ==
    LET k == call.key.key
        unregistered == ~call.key.isArray /\ legacy_object[k] # "hash"
    IN  /\ (call.op \in {"getObject", "getObjectField"} /\ unregistered)
              => ret.kind = "null"
        /\ (call.op = "getObjectKeys" /\ unregistered /\ ~Falsy(k))
              => ret = RetNames(<<>>)
        /\ (call.op = "isObjectField" /\ unregistered /\ ~Falsy(k))
              => ret = RetBool(FALSE)
        /\ (call.op = "getObjectFields" /\ unregistered /\ ~Falsy(k))
              => /\ ret.kind = "doc"
                 /\ \A f \in Fields :
                       ret.doc[f] = IF f \in Range(call.fields) THEN Null ELSE Absent
        /\ call.op = "getObjects"
              => \A i \in 1..Len(call.key.keys) :
                    legacy_object[call.key.keys[i]] # "hash" => ret.docs[i] = NullData
        /\ (call.op \in {"getObject", "getObjectField", "getObjectKeys", "isObjectField"}
             /\ (ret.kind \in {"doc", "val"} \/ ret.names # <<>> \/ ret.bools = <<TRUE>>))
              => legacy_object[k] = "hash"
        /\ \A type \in {"none", "zset"} :
              LET stale == Store([j \in Keys |-> type], legacy_hash)
                  f == call.field
              IN  /\ call.op = "getObject" => getObjectCall(stale, k) = RetNull
                  /\ call.op = "getObjectField" => getObjectFieldCall(stale, k, f) = RetNull
                  /\ call.op = "getObjects"
                        => getObjectsCall(stale, call.key.keys)
                              = RetDocs([i \in 1..Len(call.key.keys) |-> NullData])
                  /\ (call.op = "getObjectKeys" /\ ~Falsy(k))
                        => getObjectKeysCall(stale, k) = RetNames(<<>>)
                  /\ (call.op = "isObjectField" /\ ~Falsy(k))
                        => isObjectFieldCall(stale, k, f) = RetBool(FALSE)
                  /\ (call.op = "getObjectFields" /\ ~Falsy(k))
                        => getObjectFieldsCall(stale, k, call.fields)
                              = RetDoc([g \in Fields |-> IF g \in Range(call.fields)
                                                         THEN Null ELSE Absent])

\* isObjectField(k2, a) on k2, registered as a zset, gave false
C15_Witness ==
    /\ call.op = "isObjectField"
    /\ call.key.key = "k2"
    /\ call.field = "a"
    /\ legacy_object["k2"] = "zset"
    /\ ret = RetBool(FALSE)

\* C16: getObjectsFields(keys, fields) on non-empty keys gives as many results as
\* keys, the i-th being what getObjectFields(keys[i], fields) gives: a mapping of
\* exactly the requested fields, the empty list of fields included.
C16_GetObjectsFieldsPerKey ==
    (call.op = "getObjectsFields" /\ Len(call.key.keys) > 0)
    => /\ ret.kind = "docs"
       /\ Len(ret.docs) = Len(call.key.keys)
       /\ \A i \in 1..Len(call.key.keys) :
             LET one == getObjectFieldsCall(Now, call.key.keys[i], call.fields)
             IN  /\ ret.docs[i] = IF one.kind = "null" THEN NullData ELSE Data(one.doc)
                 /\ ~ret.docs[i].null
                 /\ FieldsOf(ret.docs[i].doc) = Range(call.fields)

---------------------------------------------------------------------------
(* SpecConc: concurrent callers.  A write handler runs its transaction one   *)
(* statement at a time.  The store is read committed: a statement sees what *)
(* is committed and what its own transaction wrote; a row written by a      *)
(* transaction that has not ended is locked, and a statement that needs it  *)
(* waits for that transaction to end.                                       *)

\* the calls the concurrent callers make
ConcCalls ==
    {[Call("incrObjectFieldBy") EXCEPT !.key = OneKey(k), !.field = "a", !.value = Num(1)] :
        k \in {"k1", "k2"}}

\* what the transaction of p sees: the committed store under its own writes
View(p) ==
    Store([k \in Keys |-> IF k \in tx[p].reg THEN "hash" ELSE legacy_object[k]],
          [k \in Keys |-> IF tx[p].rows[k].written THEN tx[p].rows[k].row
                          ELSE legacy_hash[k]])

\* another transaction holds an uncommitted registration of one of the keys
RegistryLocked(p, keys) == \E q \in Procs \ {p} : tx[q].reg \cap keys # {}

\* another transaction holds an uncommitted write of the row of one of the keys
RowLocked(p, keys) == \E q \in Procs \ {p} : \E k \in keys : tx[q].rows[k].written

\* p with the registrations of obj that are not committed as its own
Registered(p, obj) == [tx[p] EXCEPT !.reg = {k \in Keys : obj[k] # legacy_object[k]}]

\* p with the rows of keys written as they are in hash
Written(p, keys, hash) ==
    [tx[p] EXCEPT !.rows = [k \in Keys |-> IF k \in keys
                                           THEN [written |-> TRUE, row |-> hash[k]]
                                           ELSE @[k]]]

\* every statement issued on the pool
StatementClientDb(op) == "db"

\* the connection the statements of a handler are issued on: the client of the
\* handler's transaction (client.query), or for deleteObjectFields the pool
\* (db.query), where a statement commits by itself
StatementClient(op) == IF op = "deleteObjectFields" THEN "db" ELSE "client"

\* the arguments pass the checks deleteObjectFields makes before its statement
ReachesStatement(c) == ~Falsy(c.key.key) /\ Len(c.fields) > 0

\* the statement of a handler for one key, on the rows hash: [hash, err, ret]
StatementOf(c, hash) ==
    CASE c.op = "setObject" ->
            LET q == setObjectQuery(hash, c.key.key,
                                    JSONStringifyObject(StripEmpty(c.data.obj)))
            IN  [hash |-> q.hash, err |-> q.err, ret |-> RetUndefined]
      [] c.op = "setObjectField" ->
            LET q == setObjectFieldQuery(hash, c.key.key, c.field,
                                         JSONStringifyValue(c.value))
            IN  [hash |-> q.hash, err |-> q.err, ret |-> RetUndefined]
      [] c.op = "incrObjectFieldBy" ->
            LET q == incrObjectFieldByQuery(hash, c.key.key, c.field, parseInt(c.value).n)
            IN  [hash |-> q.hash, err |-> q.err,
                 ret |-> IF q.err THEN RetError ELSE RetNum(parseFloat(q.rows[1]))]
      [] OTHER ->
            [hash |-> deleteObjectFieldsQuery(hash, c.key.key, c.fields), err |-> FALSE,
             ret |-> RetUndefined]

\* the handler is called with c: its argument checks, then BEGIN, or for
\* deleteObjectFields its one statement
BeginCall(p, c) ==
    /\ tx[p].pc = "idle"
    /\ tx' = [tx EXCEPT ![p] =
                IF c.op = "deleteObjectFields"
                THEN IF ReachesStatement(c) THEN [@ EXCEPT !.pc = "query", !.call = c]
                     ELSE [@ EXCEPT !.pc = "done", !.call = c]
                ELSE IF ReachesTransaction(c) THEN [@ EXCEPT !.pc = "ensure", !.call = c]
                ELSE [@ EXCEPT !.pc = "done", !.call = c,
                               !.ret = IF c.op = "incrObjectFieldBy" THEN RetNull
                                       ELSE RetUndefined]]
    /\ UNCHANGED <<legacy_object, legacy_hash, call, ret, nops, building>>

Begin(p) == \E c \in ConcCalls : BeginCall(p, c)

\* helpers.ensureLegacyObjectType inside the transaction
Ensure(p) ==
    /\ tx[p].pc = "ensure"
    /\ ~RegistryLocked(p, CallKeys(tx[p].call))
    /\ LET e == ensureLegacyObjectType(View(p), tx[p].call.key.key, "hash")
           own == StatementClient(tx[p].call.op) = "client"
       IN  /\ tx' = [tx EXCEPT ![p] = [(IF own THEN Registered(p, e.st.obj) ELSE @) EXCEPT
                                          !.pc = IF e.err THEN "rollback" ELSE "query"]]
           /\ legacy_object' = IF own THEN legacy_object ELSE e.st.obj
    /\ UNCHANGED <<legacy_hash, call, ret, nops, building>>

\* the statement of the handler: inside its transaction, or by itself
Query(p) ==
    /\ tx[p].pc = "query"
    /\ ~RowLocked(p, CallKeys(tx[p].call))
    /\ LET c == tx[p].call
           q == StatementOf(c, View(p).hash)
           own == StatementClient(c.op) = "client"
       IN  /\ tx' = [tx EXCEPT ![p] =
                        [(IF own THEN Written(p, CallKeys(c), q.hash) ELSE @) EXCEPT
                           !.pc = IF own THEN IF q.err THEN "rollback" ELSE "commit"
                                  ELSE IF q.err THEN "failed" ELSE "done",
                           !.ret = q.ret]]
           /\ legacy_hash' = IF own \/ q.err THEN legacy_hash ELSE q.hash
    /\ UNCHANGED <<legacy_object, call, ret, nops, building>>

\* COMMIT: what the transaction wrote becomes the committed store
Commit(p) ==
    /\ tx[p].pc = "commit"
    /\ legacy_object' = View(p).obj
    /\ legacy_hash' = View(p).hash
    /\ tx' = [tx EXCEPT ![p] = [@ EXCEPT !.pc = "done", !.reg = {},
                                         !.rows = IdleTx.rows]]
    /\ UNCHANGED <<call, ret, nops, building>>

\* ROLLBACK: what the transaction wrote is dropped, the error goes to the caller
Rollback(p) ==
    /\ tx[p].pc = "rollback"
    /\ tx' = [tx EXCEPT ![p] = [@ EXCEPT !.pc = "failed", !.reg = {},
                                         !.rows = IdleTx.rows, !.ret = RetError]]
    /\ UNCHANGED <<legacy_object, legacy_hash, call, ret, nops, building>>

NextConc ==
    \E p \in Procs :
        \/ Begin(p)
        \/ Ensure(p)
        \/ Query(p)
        \/ Commit(p)
        \/ Rollback(p)

SpecConc == Init /\ [][NextConc]_vars

\* the callers whose increment of field a of key k has committed
Incremented(k) ==
    {p \in Procs : /\ tx[p].pc = "done"
                   /\ tx[p].call.op = "incrObjectFieldBy"
                   /\ tx[p].call.key = OneKey(k)
                   /\ tx[p].call.field = "a"
                   /\ tx[p].call.value = Num(1)}

\* C1: with the field absent at first and the callers incrementing it by 1
\* concurrently, once N of the calls have committed the field is N and the values
\* they returned are 1..N, none of them twice.
C1_IncrementAtomicity ==
    \A k \in Keys :
        LET done == Incremented(k)
            N == Cardinality(done)
        IN  N >= 1 =>
              /\ legacy_hash[k].data["a"] = Num(N)
              /\ {tx[p].ret.nums[1] : p \in done} = 1..N
              /\ \A p, q \in done : p # q => tx[p].ret.nums[1] # tx[q].ret.nums[1]

\* every caller incremented the same key, and all have committed
C1_Witness ==
    /\ \A p \in Procs : tx[p].pc = "done" /\ tx[p].call.key = OneKey("k1")
    /\ legacy_hash["k1"].data["a"] = Num(MaxProcs)

---------------------------------------------------------------------------
(* SpecMix: two concurrent callers of different write handlers on the same   *)
(* keys, and a reader.  k1 is unwritten or holds a document an earlier call *)
(* wrote (nops counts it); k2 is unwritten or registered as a zset.          *)

Pair == {1, 2}

\* the document k1 may hold at first
EarlierDoc == [EmptyDoc EXCEPT !["a"] = Num(0), !["c"] = Num(1)]

MergeA == [Call("setObject") EXCEPT !.key = OneKey("k1"),
                                    !.data = Given([EmptyDoc EXCEPT !["a"] = Num(1)])]
MergeB == [Call("setObject") EXCEPT !.key = OneKey("k1"),
                                    !.data = Given([EmptyDoc EXCEPT !["b"] = Num(2)])]
SetBoth == [Call("setObject") EXCEPT
               !.key = OneKey("k2"),
               !.data = Given([EmptyDoc EXCEPT !["a"] = Num(1), !["b"] = Num(1)])]
SetB == [Call("setObjectField") EXCEPT !.key = OneKey("k1"), !.field = "b",
                                       !.value = Num(0)]
IncrB == [Call("incrObjectFieldBy") EXCEPT !.key = OneKey("k1"), !.field = "b",
                                           !.value = Num(1)]
DeleteA == [Call("deleteObjectFields") EXCEPT !.key = OneKey("k1"), !.fields = <<"a">>]

\* the calls the two callers make
MixCalls == {MergeA, MergeB, SetBoth, SetB, IncrB, DeleteA}

InitMix ==
    /\ legacy_object \in {o \in [Keys -> {"none", "hash", "zset"}] :
                             /\ o[""] = "none"
                             /\ o["k1"] \in {"none", "hash"}
                             /\ o["k2"] \in {"none", "zset"}}
    /\ legacy_hash = [k \in Keys |-> IF k = "k1" /\ legacy_object[k] = "hash"
                                     THEN Row(EarlierDoc) ELSE NoRow]
    /\ call = Call("idle")
    /\ ret = RetUndefined
    /\ nops = IF legacy_object["k1"] = "hash" THEN 1 ELSE 0
    /\ tx = InitTx
    /\ building = IdleBuild

BeginMix(p) == \E c \in MixCalls : BeginCall(p, c)

\* a reader's getObject(key): one statement, on the committed store
ReadObject ==
    /\ \E key \in {"k1", "k2"} :
          /\ call' = [Call("getObject") EXCEPT !.key = OneKey(key)]
          /\ ret' = getObjectCall(Now, key)
    /\ UNCHANGED <<legacy_object, legacy_hash, nops, tx, building>>

\* a reader's getObjects([key])
ReadObjects ==
    /\ \E key \in {"k1", "k2"} :
          /\ call' = [Call("getObjects") EXCEPT !.key = KeyArray(<<key>>)]
          /\ ret' = getObjectsCall(Now, <<key>>)
    /\ UNCHANGED <<legacy_object, legacy_hash, nops, tx, building>>

NextMix ==
    \/ \E p \in Pair :
          \/ BeginMix(p)
          \/ Ensure(p)
          \/ Query(p)
          \/ Commit(p)
          \/ Rollback(p)
    \/ ReadObject
    \/ ReadObjects

SpecMix == InitMix /\ [][NextMix]_vars

\* the calls c and d of the two callers have both completed
BothDone(c, d) ==
    \E p, q \in Pair : /\ p # q
                        /\ tx[p].pc = "done" /\ tx[p].call = c
                        /\ tx[q].pc = "done" /\ tx[q].call = d

\* field c of k1 is as the earlier call left it
EarlierKept ==
    legacy_hash["k1"].data["c"] = IF nops = 1 THEN EarlierDoc["c"] ELSE Absent

\* a document with both fields of SetBoth
HasBoth(d) == d["a"] = Num(1) /\ d["b"] = Num(1)

\* C13: while setObject(k2, {a: 1, b: 1}) runs on the unwritten k2, every
\* getObject(k2) and getObjects([k2]) gives null or a document holding both a and
\* b, and the committed store never holds the registration of k2 without its
\* document, nor a document with only one of the fields.
C13_NoPartialEffects ==
    /\ (call.op = "getObject" /\ call.key.key = "k2")
          => ret.kind = "null" \/ (ret.kind = "doc" /\ HasBoth(ret.doc))
    /\ (call.op = "getObjects" /\ call.key.keys = <<"k2">>)
          => /\ Len(ret.docs) = 1
             /\ ret.docs[1].null \/ HasBoth(ret.docs[1].doc)
    /\ legacy_object["k2"] = "hash" <=> legacy_hash["k2"].row
    /\ legacy_hash["k2"].row => HasBoth(legacy_hash["k2"].data)

\* a reader got null for k2 while a transaction held its registration and its
\* document, not yet committed
C13_Witness ==
    /\ call.op = "getObject"
    /\ call.key.key = "k2"
    /\ ret.kind = "null"
    /\ \E p \in Pair : /\ tx[p].pc = "commit"
                        /\ tx[p].call = SetBoth
                        /\ "k2" \in tx[p].reg
                        /\ tx[p].rows["k2"].written

\* C17: once setObject(k1, {a: 1}) and setObject(k1, {b: 2}), made concurrently,
\* have both committed, the document of k1 holds a = 1 and b = 2, and field c,
\* which neither names, is as it was.
C17_NoLostMerge ==
    BothDone(MergeA, MergeB)
    => /\ legacy_hash["k1"].row
       /\ legacy_hash["k1"].data["a"] = Num(1)
       /\ legacy_hash["k1"].data["b"] = Num(2)
       /\ EarlierKept

\* both merges have committed on the document an earlier call wrote
C17_Witness ==
    /\ BothDone(MergeA, MergeB)
    /\ nops = 1
    /\ legacy_hash["k1"].data =
          [EmptyDoc EXCEPT !["a"] = Num(1), !["b"] = Num(2), !["c"] = Num(1)]

\* C18: once deleteObjectFields(k1, [a]) and a concurrent setObjectField(k1, b, 0)
\* or incrObjectFieldBy(k1, b, 1) have both completed, field a is absent and b
\* holds the value written (0) or incremented to (1, which the increment
\* returned); field c is as it was.
C18_NoLostDeleteOrWrite ==
    /\ BothDone(DeleteA, SetB)
          => /\ legacy_hash["k1"].data["a"] = Absent
             /\ legacy_hash["k1"].data["b"] = Num(0)
             /\ EarlierKept
    /\ BothDone(DeleteA, IncrB)
          => /\ legacy_hash["k1"].data["a"] = Absent
             /\ legacy_hash["k1"].data["b"] = Num(1)
             /\ \A p \in Pair : tx[p].call = IncrB => tx[p].ret = RetNum(1)
             /\ EarlierKept

\* the delete and the increment have both completed on the earlier document
C18_Witness ==
    /\ BothDone(DeleteA, IncrB)
    /\ nops = 1
    /\ legacy_hash["k1"].data = [EmptyDoc EXCEPT !["b"] = Num(1), !["c"] = Num(1)]

---------------------------------------------------------------------------
(* SpecBuild: exports.build.  building is the build in progress: pc the step *)
(* it is in, targets the handlers to run, started and running the handlers *)
(* begun and not yet back, each whether the iteration over the handlers has *)
(* called back, steps the steps begun, reported the errors the steps gave,  *)
(* err and callbacks what the callback of exports.build got, and how often. *)

\* the names exports.build is tried with: an alias, the name of a handler, a name
\* that stands for two handlers, a name that is no target, and a name that is no
\* target but a property every object inherits
TargetNames == {"tpl", "languages", "styles", "bogus", "constructor"}
TargetLists == SeqsUpTo(TargetNames, MaxLen)

\* aliases[target]: the full name; "" where the lookup finds nothing.  aliases
\* is a plain object, so the lookup of "constructor" finds the function Object
\* that every object inherits
aliases(target) ==
    CASE target = "tpl" -> "templates"
      [] target \in {"templates", "languages", "styles"} -> target
      [] target = "constructor" -> "Object"
      [] OTHER -> ""

\* the handlers a full name stands for: the array, or the target itself
targetHandlers(target) ==
    IF target = "styles" THEN <<"client side styles", "admin control panel styles">>
    ELSE <<target>>

\* the targets whose entry in targetHandlers is a function
allTargets ==
    {"templates", "languages", "client side styles", "admin control panel styles"}

\* the handlers that call back at once, with no error
NeverFails == {"client side styles", "admin control panel styles"}

RECURSIVE flatMap(_)
flatMap(targets) ==
    IF targets = <<>> THEN <<>>
    ELSE targetHandlers(Head(targets)) \o flatMap(Tail(targets))

RECURSIVE uniq(_)
uniq(targets) ==
    IF targets = <<>> THEN <<>>
    ELSE LET front == uniq(SubSeq(targets, 1, Len(targets) - 1))
             last == targets[Len(targets)]
         IN  IF last \in Range(front) THEN front ELSE Append(front, last)

\* the targets as exports.build resolves them: full names, unknown names
\* dropped, arrays of handlers flattened, each handler once
ResolveTargets(targets) ==
    uniq(flatMap(SelectSeq([i \in 1..Len(targets) |-> aliases(targets[i])],
                           LAMBDA t : t # "")))

\* !targets: targets is an array, and no array is falsy
NoTargets(targets) == FALSE

\* the callback of exports.build is called with err ("" for none)
Called(b, err) == [b EXCEPT !.callbacks = @ + 1, !.err = err]

\* the final function of async.series: the callback gets the error, or nothing
SeriesDone(b, err) == [Called(b, err) EXCEPT !.pc = "done"]

\* the step after the targets: bundle()
bundleStart(b) == [b EXCEPT !.pc = "bundle", !.steps = Append(@, "bundle")]

\* the handlers async.each starts, in order: all of them, or those up to the
\* first target that has no handler
RECURSIVE Startable(_)
Startable(targets) ==
    IF targets = <<>> THEN <<>>
    ELSE IF Head(targets) \notin allTargets THEN <<Head(targets)>>
    ELSE <<Head(targets)>> \o Startable(Tail(targets))

\* targetHandlers[target](...) for the targets begun: where the last of them has
\* no handler the call throws a TypeError, which nothing catches, and the build
\* goes no further
Started(b, begun) ==
    LET last == begun[Len(begun)]
    IN  IF last \in allTargets
        THEN [b EXCEPT !.started = @ \o begun, !.running = @ \cup Range(begun)]
        ELSE [b EXCEPT !.pc = "thrown", !.started = @ \o begun,
                       !.running = @ \cup (Range(begun) \ {last})]

\* buildTargets(targets, parallel, next): async.each starts every handler,
\* async.eachSeries the first; with no target the iteration calls back at once
buildTargets(b) ==
    LET c == [b EXCEPT !.steps = Append(@, "buildTargets")]
        d == [c EXCEPT !.pc = "buildTargets", !.each = "pending"]
    IN  IF Len(b.targets) = 0 THEN bundleStart([c EXCEPT !.each = "called"])
        ELSE IF b.series THEN Started(d, <<b.targets[1]>>)
        ELSE Started(d, Startable(b.targets))

\* exports.build(targets, options, callback)
build ==
    /\ building.pc = "idle"
    /\ \E targets \in TargetLists, series \in BOOLEAN :
          LET ts == ResolveTargets(targets)
              b == [IdleBuild EXCEPT !.pc = "beforeBuild", !.targets = ts,
                                     !.series = series, !.steps = <<"beforeBuild">>]
          IN  building' = IF NoTargets(ts) THEN Called(b, "") ELSE b
    /\ UNCHANGED <<legacy_object, legacy_hash, call, ret, nops, tx>>

\* beforeBuild calls back, with an error of one of its three steps or without
beforeBuild ==
    /\ building.pc = "beforeBuild"
    /\ \E ok \in BOOLEAN :
          building' = IF ok THEN buildTargets(building)
                      ELSE SeriesDone([building EXCEPT !.reported = @ \cup {"beforeBuild"}],
                                      "beforeBuild")
    /\ UNCHANGED <<legacy_object, legacy_hash, call, ret, nops, tx>>

\* a running handler calls the function step(target, next) gave it: the
\* iteration calls back with the first error, or when every target is back;
\* async.eachSeries starts the next handler
step ==
    /\ \E t \in building.running, ok \in BOOLEAN :
          /\ ok \/ t \notin NeverFails
          /\ LET b == [building EXCEPT !.running = @ \ {t},
                                       !.reported = IF ok THEN @ ELSE @ \cup {t}]
                 more == Len(b.started) < Len(b.targets)
                 n == b.targets[Len(b.started) + 1]
             IN  building' =
                   IF b.each # "pending" THEN b
                   ELSE IF ~ok THEN SeriesDone([b EXCEPT !.each = "called"], t)
                   ELSE IF more THEN (IF b.series THEN Started(b, <<n>>) ELSE b)
                   ELSE IF b.running = {} THEN bundleStart([b EXCEPT !.each = "called"])
                   ELSE b
    /\ UNCHANGED <<legacy_object, legacy_hash, call, ret, nops, tx>>

\* bundle() ends: an error of webpack is caught and logged, one of
\* db.getSortedSetRange rejects the step
bundle ==
    /\ building.pc = "bundle"
    /\ \E outcome \in {"ok", "webpack failed", "db failed"} :
          building' = IF outcome = "db failed"
                      THEN SeriesDone([building EXCEPT !.reported = @ \cup {"bundle"}],
                                      "bundle")
                      ELSE [building EXCEPT !.pc = "cacheBuster",
                                            !.steps = Append(@, "cacheBuster")]
    /\ UNCHANGED <<legacy_object, legacy_hash, call, ret, nops, tx>>

\* cacheBuster.write(next) calls back
cacheBusterWrite ==
    /\ building.pc = "cacheBuster"
    /\ \E ok \in BOOLEAN :
          building' = IF ok THEN SeriesDone(building, "")
                      ELSE SeriesDone([building EXCEPT !.reported = @ \cup {"cacheBuster"}],
                                      "cacheBuster")
    /\ UNCHANGED <<legacy_object, legacy_hash, call, ret, nops, tx>>

NextBuild ==
    \/ build
    \/ beforeBuild
    \/ step
    \/ bundle
    \/ cacheBusterWrite

\* the event loop runs every callback that is due
SpecBuild == Init /\ [][NextBuild]_vars /\ WF_vars(NextBuild)

\* the steps of a build, in their order
StepOrder == <<"beforeBuild", "buildTargets", "bundle", "cacheBuster">>

IsPrefix(s, t) == Len(s) <= Len(t) /\ \A i \in 1..Len(s) : s[i] = t[i]

\* the errors of beforeBuild and of the target handlers
EarlyErrors == {"beforeBuild"} \cup Range(building.targets)

\* the callback is called at most once, and once when the build is done; the
\* steps begin in their order; an error of beforeBuild or of a handler is what
\* the callback gets, and then the cache buster is not written; in series mode
\* the failing handler is the last one started
BuildSafe ==
    /\ building.callbacks <= 1
    /\ building.pc = "done" <=> building.callbacks = 1
    /\ IsPrefix(building.steps, StepOrder)
    /\ building.pc = "done" =>
          /\ building.reported = {} => building.err = "" /\ building.steps = StepOrder
          /\ building.reported # {} => building.err \in building.reported
    /\ building.reported \cap EarlyErrors # {} =>
          /\ building.pc = "done"
          /\ building.err \in EarlyErrors
          /\ "cacheBuster" \notin Range(building.steps)
    /\ (building.series /\ building.err \in Range(building.targets)) =>
          /\ building.started[Len(building.started)] = building.err
          /\ building.running = {}

\* C20: exports.build calls its callback exactly once, for every list of targets
\* and every outcome of the steps: never twice, and in the end once.  The steps
\* begin in the order beforeBuild, target handlers, bundle, cache buster; when
\* beforeBuild or a handler reports an error the callback gets that error and
\* the cache buster is never written; in series mode no handler is started
\* after the one that failed.
C20_BuildCompletion ==
    /\ []BuildSafe
    /\ <>(building.pc = "done" /\ building.callbacks = 1)

====
